---- MODULE Spec2Model ----
(***************************************************************************)
(* Expense tracker: validation/parsing helpers (expense_tracker/utils.py), *)
(* the Expense value object (expense_tracker/models.py) and the            *)
(* file-backed ExpenseStore (expense_tracker/store.py).                    *)
(*                                                                         *)
(* Text is a sequence of one-character strings over the characters a      *)
(* string of this language can hold (ASCII).  An amount is a float with an *)
(* integral value, written as that integer; a float that is not integral,  *)
(* infinite or NaN has no value here.  The backing file is modelled by the *)
(* JSON document it holds, so json.dumps followed by json.loads is the     *)
(* identity on it; a JSON integer (5) and a JSON float (5.0) are distinct. *)
(***************************************************************************)
EXTENDS Integers, Sequences, FiniteSets, TLC

(***************************************************************************)
(* Text helpers: str.strip, str.lower, digits                              *)
(***************************************************************************)
\* the ASCII characters str.strip() removes: blank, tab, line feed, carriage
\* return, form feed, then (written as the control characters themselves)
\* vertical tab \x0b and the separators \x1c, \x1d, \x1e, \x1f.  The spaces
\* beyond ASCII (\x85, \xa0, ...) cannot be held in a string here.
Whitespace ==
    {" ", "\t", "\n", "\r", "\f", "", "", "", "", ""}

\* the ASCII characters float() skips around a number (C isspace): the
\* separators \x1c-\x1f are not among them
FloatSpace == {" ", "\t", "\n", "\r", "\f", ""}

DigitChars == <<"0", "1", "2", "3", "4", "5", "6", "7", "8", "9">>

UpperChars == <<"A", "B", "C", "D", "E", "F", "G", "H", "I", "J", "K", "L", "M",
                "N", "O", "P", "Q", "R", "S", "T", "U", "V", "W", "X", "Y", "Z">>

LowerChars == <<"a", "b", "c", "d", "e", "f", "g", "h", "i", "j", "k", "l", "m",
                "n", "o", "p", "q", "r", "s", "t", "u", "v", "w", "x", "y", "z">>

IsDigit(c) == \E i \in 1..10 : DigitChars[i] = c

DigitVal(c) == (CHOOSE i \in 1..10 : DigitChars[i] = c) - 1

\* s without its leading and trailing characters of ws
StripChars(s, ws) ==
    LET keep == {i \in 1..Len(s) : s[i] \notin ws}
    IN  IF keep = {} THEN <<>>
        ELSE LET first == CHOOSE i \in keep : \A j \in keep : i <= j
                 last  == CHOOSE i \in keep : \A j \in keep : j <= i
             IN  SubSeq(s, first, last)

\* str.strip(): drop leading and trailing whitespace
Strip(s) == StripChars(s, Whitespace)

LowerChar(c) ==
    IF \E i \in 1..26 : UpperChars[i] = c
    THEN LowerChars[CHOOSE i \in 1..26 : UpperChars[i] = c]
    ELSE c

\* str.lower()
Lower(s) == [i \in 1..Len(s) |-> LowerChar(s[i])]

\* n copies of the character c
Rep(c, n) == [i \in 1..n |-> c]

RECURSIVE Pow10(_)
Pow10(k) == IF k = 0 THEN 1 ELSE 10 * Pow10(k - 1)

\* the decimal digits of n, zero-padded to width (the %04d / %02d of isoformat)
ZeroPad(n, width) ==
    [i \in 1..width |-> DigitChars[((n \div Pow10(width - i)) % 10) + 1]]

RECURSIVE DecValue(_)
\* the number a run of digits writes (0 for the empty run)
DecValue(ds) ==
    IF ds = <<>> THEN 0
    ELSE 10 * DecValue(SubSeq(ds, 1, Len(ds) - 1)) + DigitVal(ds[Len(ds)])

\* int() of a run of digits (surrounding blanks are ignored, as int does)
IntOf(s) == DecValue(Strip(s))

RECURSIVE NatText(_)
\* the decimal digits of n >= 0, without padding
NatText(n) ==
    IF n < 10 THEN <<DigitChars[n + 1]>>
    ELSE NatText(n \div 10) \o <<DigitChars[(n % 10) + 1]>>

\* str() of an int
IntText(n) == IF n < 0 THEN <<"-">> \o NatText(0 - n) ELSE NatText(n)

(***************************************************************************)
(* Calendar dates (datetime.date)                                          *)
(***************************************************************************)
\* Python's None, in the shape of a date that no calendar has
None == [year |-> 0, month |-> 0, day |-> 0]

MkDate(y, m, d) == [year |-> y, month |-> m, day |-> d]

IsLeap(y) == y % 4 = 0 /\ (y % 100 # 0 \/ y % 400 = 0)

DaysInMonth(y, m) ==
    IF m = 2 THEN (IF IsLeap(y) THEN 29 ELSE 28)
    ELSE IF m \in {4, 6, 9, 11} THEN 30 ELSE 31

\* the range check of the datetime.date constructor (MINYEAR = 1, MAXYEAR = 9999)
ValidDate(y, m, d) ==
    /\ y \in 1..9999
    /\ m \in 1..12
    /\ d \in 1..DaysInMonth(y, m)

\* date.isoformat(): YYYY-MM-DD, zero-padded
isoformat(dt) ==
    ZeroPad(dt.year, 4) \o <<"-">> \o ZeroPad(dt.month, 2) \o <<"-">> \o ZeroPad(dt.day, 2)

(***************************************************************************)
(* datetime.strptime(value, "%Y-%m-%d"): the format compiles to the regex  *)
(*   (?P<Y>\d\d\d\d)-(?P<m>1[0-2]|0[1-9]|[1-9])-                           *)
(*   (?P<d>3[0-1]|[1-2]\d|0[1-9]|[1-9]| [1-9])                             *)
(* matched at the start of the text; text left over after the match, or a  *)
(* (year, month, day) no calendar has, is a ValueError.                    *)
(***************************************************************************)
At(s, p) == IF p \in 1..Len(s) THEN s[p] ELSE ""

\* lengths of the alternatives of the %m group that match at p, in regex order
MonthAlts(s, p) ==
    (IF At(s, p) = "1" /\ At(s, p + 1) \in {"0", "1", "2"} THEN <<2>> ELSE <<>>)
    \o (IF At(s, p) = "0" /\ IsDigit(At(s, p + 1)) /\ At(s, p + 1) # "0" THEN <<2>> ELSE <<>>)
    \o (IF IsDigit(At(s, p)) /\ At(s, p) # "0" THEN <<1>> ELSE <<>>)

\* length of the first alternative of the %d group that matches at p (0: none)
DayLen(s, p) ==
    IF At(s, p) = "3" /\ At(s, p + 1) \in {"0", "1"} THEN 2
    ELSE IF At(s, p) \in {"1", "2"} /\ IsDigit(At(s, p + 1)) THEN 2
    ELSE IF At(s, p) = "0" /\ IsDigit(At(s, p + 1)) /\ At(s, p + 1) # "0" THEN 2
    ELSE IF IsDigit(At(s, p)) /\ At(s, p) # "0" THEN 1
    ELSE IF At(s, p) = " " /\ IsDigit(At(s, p + 1)) /\ At(s, p + 1) # "0" THEN 2
    ELSE 0

\* the month alternatives after which the rest of the regex ("-" and a day) matches
MonthFits(s) ==
    LET alts == MonthAlts(s, 6)
    IN  {i \in 1..Len(alts) : At(s, 6 + alts[i]) = "-" /\ DayLen(s, 7 + alts[i]) > 0}

strptime(s) ==
    IF ~(/\ \A i \in 1..4 : IsDigit(At(s, i))
         /\ At(s, 5) = "-"
         /\ MonthFits(s) # {})
    THEN None
    ELSE LET alts == MonthAlts(s, 6)
             k    == alts[CHOOSE i \in MonthFits(s) : \A j \in MonthFits(s) : i <= j]
             dl   == DayLen(s, 7 + k)
             y    == IntOf(SubSeq(s, 1, 4))
             m    == IntOf(SubSeq(s, 6, 5 + k))
             d    == IntOf(SubSeq(s, 7 + k, 6 + k + dl))
         IN  IF 6 + k + dl # Len(s) THEN None      \* unconverted data remains
             ELSE IF ~ValidDate(y, m, d) THEN None \* date() rejects it
             ELSE MkDate(y, m, d)

\* utils.parse_date
parse_date(value) ==
    LET v == Strip(value)
    IN  IF v = <<>> THEN None ELSE strptime(v)

(***************************************************************************)
(* Validators (utils.py): TRUE when the validator returns, FALSE when it   *)
(* raises ValueError                                                       *)
(***************************************************************************)
MaxCategoryLen == 30

MaxDescriptionLen == 120

validate_amount(amount) == ~(amount <= 0)

validate_category(category) ==
    LET c == Strip(category)
    IN  c # <<>> /\ ~(Len(c) > MaxCategoryLen)

validate_description(description) ==
    LET d == Strip(description)
    IN  d # <<>> /\ ~(Len(d) > MaxDescriptionLen)

(***************************************************************************)
(* JSON values read from or written to the backing file                    *)
(***************************************************************************)
JStr(s) == [t |-> "str", s |-> s, n |-> 0]

\* a JSON integer, which json.loads reads as an int
JNum(n) == [t |-> "num", s |-> <<>>, n |-> n]

\* a JSON number with a fraction part (5.0), which json.loads reads as a float
JFloat(n) == [t |-> "float", s |-> <<>>, n |-> n]

\* JSON null, which json.loads reads as None
JNull == [t |-> "null", s |-> <<>>, n |-> 0]

\* JSON true (n = 1) and false (n = 0)
JBool(b) == [t |-> "bool", s |-> <<>>, n |-> IF b THEN 1 ELSE 0]

\* a key the mapping does not have: dict.get returns its default
JMissing == [t |-> "missing", s |-> <<>>, n |-> 0]

\* a JSON object with the four keys (each possibly missing)
JObject(d, c, desc, a) ==
    [obj |-> TRUE, date |-> d, category |-> c, description |-> desc, amount |-> a]

\* a list element that is not an object (a bare number): it has no .get
JScalar ==
    [obj |-> FALSE, date |-> JMissing, category |-> JMissing,
     description |-> JMissing, amount |-> JMissing]

\* str(data.get(key, "")): text is itself, a missing key gives the default "",
\* any other value its Python rendering (nested lists and objects are left out)
PyStr(v) ==
    CASE v.t = "str" -> v.s
      [] v.t = "missing" -> <<>>
      [] v.t = "num" -> IntText(v.n)
      [] v.t = "float" -> IntText(v.n) \o <<".", "0">>
      [] v.t = "null" -> <<"N", "o", "n", "e">>
      [] v.t = "bool" -> IF v.n = 1 THEN <<"T", "r", "u", "e">>
                         ELSE <<"F", "a", "l", "s", "e">>

\* text without its underscores
Ungrouped(x) == SelectSeq(x, LAMBDA c : c # "_")

\* digits, possibly grouped by single underscores: digit (["_"] digit)*
IsDigitPart(x) ==
    /\ x # <<>>
    /\ \A i \in 1..Len(x) : IsDigit(x[i]) \/ x[i] = "_"
    /\ IsDigit(x[1]) /\ IsDigit(x[Len(x)])
    /\ \A i \in 1..(Len(x) - 1) : ~(x[i] = "_" /\ x[i + 1] = "_")

\* position of the first character of x that is in cs (0: none)
FirstOf(x, cs) ==
    IF \E i \in 1..Len(x) : x[i] \in cs
    THEN CHOOSE i \in 1..Len(x) : x[i] \in cs /\ \A j \in 1..(i - 1) : x[j] \notin cs
    ELSE 0

\* the number of a well-formed float text is digits * 10^shift
FloatFields(ip, fp, hasDot, hasExp, exNeg, exDigits) ==
    IF /\ hasExp => IsDigitPart(exDigits)
       /\ IF ~hasDot THEN IsDigitPart(ip)
          ELSE /\ ip = <<>> \/ IsDigitPart(ip)
               /\ fp = <<>> \/ IsDigitPart(fp)
               /\ ip # <<>> \/ fp # <<>>
    THEN [ wellFormed |-> TRUE,
           digits |-> Ungrouped(ip) \o Ungrouped(fp),
           shift |-> (IF ~hasExp THEN 0
                      ELSE IF exNeg THEN 0 - DecValue(Ungrouped(exDigits))
                      ELSE DecValue(Ungrouped(exDigits)))
                     - Len(Ungrouped(fp)) ]
    ELSE [ wellFormed |-> FALSE, digits |-> <<>>, shift |-> 0 ]

\* the mantissa cut at its point (dot = 0: it has none)
FloatSplitDot(mant, dot, hasExp, exNeg, exDigits) ==
    FloatFields(IF dot = 0 THEN mant ELSE SubSeq(mant, 1, dot - 1),
                IF dot = 0 THEN <<>> ELSE SubSeq(mant, dot + 1, Len(mant)),
                dot # 0, hasExp, exNeg, exDigits)

\* mantissa and exponent; the exponent may carry a sign
FloatSplitExp(mant, hasExp, ex) ==
    FloatSplitDot(mant, FirstOf(mant, {"."}), hasExp,
                  ex # <<>> /\ ex[1] = "-",
                  IF ex # <<>> /\ ex[1] \in {"+", "-"} THEN Tail(ex) ELSE ex)

\* the text cut at its first e or E (e = 0: it has none)
FloatSplit(body, e) ==
    FloatSplitExp(IF e = 0 THEN body ELSE SubSeq(body, 1, e - 1),
                  e # 0,
                  IF e = 0 THEN <<>> ELSE SubSeq(body, e + 1, Len(body)))

\* float() of text, after the sign: the parts of [digits][.digits][e[+-]digits]
FloatParts(body) == FloatSplit(body, FirstOf(body, {"e", "E"}))

\* m * 10^shift with the sign, where that is a whole number
FloatOfScaled(neg, m, shift) ==
    CASE m = 0 -> [ok |-> TRUE, val |-> 0]
      [] m # 0 /\ shift >= 0 ->
           [ok |-> TRUE, val |-> IF neg THEN 0 - m * Pow10(shift) ELSE m * Pow10(shift)]
      [] m # 0 /\ shift < 0 /\ m % Pow10(0 - shift) = 0 ->
           [ok |-> TRUE, val |-> IF neg THEN 0 - (m \div Pow10(0 - shift))
                                 ELSE m \div Pow10(0 - shift)]

\* a text that is no number is a ValueError
FloatOfParts(neg, p) ==
    IF ~p.wellFormed THEN [ok |-> FALSE, val |-> 0]
    ELSE FloatOfScaled(neg, DecValue(p.digits), p.shift)

FloatSpecials ==
    { <<"i", "n", "f">>, <<"n", "a", "n">>, <<"i", "n", "f", "i", "n", "i", "t", "y">> }

\* inf, infinity and nan (in any case) are floats that have no value here
FloatOfSigned(neg, body) ==
    CASE Lower(body) \notin FloatSpecials -> FloatOfParts(neg, FloatParts(body))

FloatOfStripped(t) ==
    FloatOfSigned(t # <<>> /\ t[1] = "-",
                  IF t # <<>> /\ t[1] \in {"+", "-"} THEN Tail(t) ELSE t)

\* float() of text: blanks trimmed, an optional sign, then inf, infinity or
\* nan in any case, or a decimal number; anything else is a ValueError.  The
\* result has a value here when it is an integral finite number.
FloatOfText(s) == FloatOfStripped(StripChars(s, FloatSpace))

\* float(data.get("amount")): a number is its value, true and false are 1 and
\* 0, text is parsed (ValueError when it is no number), None (null or a
\* missing key) is a TypeError
PyFloat(v) ==
    CASE v.t \in {"num", "float", "bool"} -> [ok |-> TRUE, val |-> v.n]
      [] v.t \in {"missing", "null"} -> [ok |-> FALSE, val |-> 0]
      [] v.t = "str" -> FloatOfText(v.s)

(***************************************************************************)
(* Expense (models.py): a frozen dataclass; its constructor stores the     *)
(* four fields as given                                                    *)
(***************************************************************************)
Expense(d, c, desc, a) ==
    [date |-> d, category |-> c, description |-> desc, amount |-> a]

NoExpense == Expense(None, <<>>, <<>>, 0)

Raised(kind) == [ok |-> FALSE, err |-> kind, val |-> NoExpense]

\* Expense.from_dict
from_dict(data) ==
    IF ~data.obj THEN Raised("AttributeError")
    ELSE LET d == parse_date(Strip(PyStr(data.date)))
             category == Strip(PyStr(data.category))
             description == Strip(PyStr(data.description))
             amount == PyFloat(data.amount)
         IN  IF d = None THEN Raised("ValueError")
             ELSE IF ~amount.ok THEN Raised("ValueError")
             ELSE IF ~validate_category(category) THEN Raised("ValueError")
             ELSE IF ~validate_description(description) THEN Raised("ValueError")
             ELSE IF ~validate_amount(amount.val) THEN Raised("ValueError")
             ELSE [ok |-> TRUE, err |-> "",
                   val |-> Expense(d, category, description, amount.val)]

\* Expense.to_dict
to_dict(e) ==
    JObject(JStr(isoformat(e.date)), JStr(e.category), JStr(e.description),
            JFloat(e.amount))

(***************************************************************************)
(* The backing file, by the document it holds                              *)
(***************************************************************************)
Absent == [kind |-> "absent", items |-> <<>>]

\* exists but is not a JSON document (empty or cut short by a failed write)
Garbage == [kind |-> "garbage", items |-> <<>>]

\* a JSON document whose top-level value is an object, not a list
NotAList == [kind |-> "object", items |-> <<>>]

JList(items) == [kind |-> "list", items |-> items]

\* what save() writes: json.dumps([e.to_dict() for e in self.expenses])
Serialize(exps) == JList([i \in 1..Len(exps) |-> to_dict(exps[i])])

(***************************************************************************)
(* ExpenseStore (store.py) as functions of the store's state               *)
(***************************************************************************)
RECURSIVE SumAmounts(_)
\* sum(e.amount for e in exps)
SumAmounts(exps) ==
    IF exps = <<>> THEN 0 ELSE exps[1].amount + SumAmounts(Tail(exps))

\* total_spending's optional argument: category=None, or a text
NoCategory == [given |-> FALSE, s |-> <<>>]

Category(s) == [given |-> TRUE, s |-> s]

\* a total_spending that compares the category as it is stored and as it is given
total_spending_exact(exps, category) ==
    IF ~category.given THEN SumAmounts(exps)
    ELSE SumAmounts(SelectSeq(exps, LAMBDA e : e.category = category.s))

\* ExpenseStore.total_spending
total_spending(exps, category) ==
    IF ~category.given THEN SumAmounts(exps)
    ELSE LET cat == Lower(Strip(category.s))
         IN  SumAmounts(SelectSeq(exps, LAMBDA e : Lower(e.category) = cat))

\* the elements of the file that from_dict accepts, in file order
GoodItems(items) == SelectSeq(items, LAMBDA item : from_dict(item).ok)

\* a load() that skips the rows from_dict rejects and reads a non-list as empty
load_skipping(f, exps) ==
    IF f.kind = "absent" THEN [ok |-> TRUE, err |-> "", expenses |-> <<>>]
    ELSE IF f.kind = "garbage" THEN [ok |-> FALSE, err |-> "RuntimeError", expenses |-> exps]
    ELSE LET good == GoodItems(f.items)
         IN  [ok |-> TRUE, err |-> "", expenses |-> [i \in 1..Len(good) |-> from_dict(good[i]).val]]

\* a load() that appends what it read to what the store already holds
load_merging(f, exps) ==
    IF f.kind = "absent" THEN [ok |-> TRUE, err |-> "", expenses |-> exps]
    ELSE IF f.kind # "list" THEN [ok |-> FALSE, err |-> "RuntimeError", expenses |-> exps]
    ELSE IF \E i \in 1..Len(f.items) : ~from_dict(f.items[i]).ok
         THEN [ok |-> FALSE, err |-> "RuntimeError", expenses |-> exps]
    ELSE [ok |-> TRUE, err |-> "",
          expenses |-> exps \o [i \in 1..Len(f.items) |-> from_dict(f.items[i]).val]]

\* ExpenseStore.load on file f with self.expenses = exps: whether it returns
\* (ok) or raises RuntimeError, and self.expenses afterwards
load(f, exps) ==
    IF f.kind = "absent" THEN [ok |-> TRUE, err |-> "", expenses |-> <<>>]
    ELSE IF f.kind = "garbage" THEN [ok |-> FALSE, err |-> "RuntimeError", expenses |-> exps]  \* json.loads raises
    ELSE IF f.kind # "list" THEN [ok |-> FALSE, err |-> "RuntimeError", expenses |-> exps]     \* not isinstance(raw, list)
    ELSE IF \E i \in 1..Len(f.items) : ~from_dict(f.items[i]).ok
         THEN [ok |-> FALSE, err |-> "RuntimeError", expenses |-> exps]   \* the comprehension raised before the assignment
    ELSE [ok |-> TRUE, err |-> "",
          expenses |-> [i \in 1..Len(f.items) |-> from_dict(f.items[i]).val]]

\* the outcomes of Path.write_text: the write goes through, open() fails,
\* or the file is opened (truncated) and the write fails
IoOutcomes == {"written", "open_failed", "write_failed"}

\* ExpenseStore.save with self.expenses = exps on file f under outcome io
save(f, exps, io) ==
    CASE io = "written" -> [ok |-> TRUE, file |-> Serialize(exps)]
      [] io = "open_failed" -> [ok |-> FALSE, file |-> f]
      [] io = "write_failed" -> [ok |-> FALSE, file |-> Garbage]

\* an add_expense that takes the entry back when save() raises
add_expense_rollback(f, exps, expense, io) ==
    LET r == save(f, Append(exps, expense), io)
    IN  [ok |-> r.ok, file |-> r.file,
         expenses |-> IF r.ok THEN Append(exps, expense) ELSE exps]

\* ExpenseStore.add_expense: append, then save
add_expense(f, exps, expense, io) ==
    LET appended == Append(exps, expense)
        r == save(f, appended, io)
    IN  [ok |-> r.ok, file |-> r.file, expenses |-> appended]

\* ExpenseStore.clear_all: rebind to an empty list, then save
clear_all(f, io) ==
    LET r == save(f, <<>>, io)
    IN  [ok |-> r.ok, file |-> r.file, expenses |-> <<>>]

\* The list the caller got from list_expenses: either another list object
\* (own = TRUE, with its own elements) or the very object self.expenses is
\* bound to (own = FALSE).
NoSnapshot == [held |-> FALSE, own |-> TRUE, val |-> <<>>]

\* a list_expenses that hands out self.expenses itself
list_expenses_same_object(exps) == [held |-> TRUE, own |-> FALSE, val |-> <<>>]

\* ExpenseStore.list_expenses: list(self.expenses), a new list object
list_expenses(exps) == [held |-> TRUE, own |-> TRUE, val |-> exps]

(***************************************************************************)
(* State                                                                   *)
(***************************************************************************)
VARIABLES
    expenses,   \* self.expenses of the store
    file,       \* the document at self.db_path
    snap,       \* the list a caller holds from list_expenses
    last,       \* the most recent call: its name, arguments and outcome
    lastWrite,  \* outcome of the most recent save / add_expense / clear_all
    onlyAdds,   \* "none": nothing called yet; "clean": only add_expense, all returned
    unsaved,    \* an add_expense failed and no save has succeeded since
    gap,        \* ... and the file matched memory before it; no load or clear since
    inp,        \* input of the call on the pure functions
    out         \* its result

vars == <<expenses, file, snap, last, lastWrite, onlyAdds, unsaved, gap, inp, out>>

storeVars == <<expenses, file, snap, last, lastWrite, onlyAdds, unsaved, gap>>

(***************************************************************************)
(* Inputs                                                                  *)
(***************************************************************************)
\* the longest in-memory sequence explored
MaxLen == 2

Food == <<"f", "o", "o", "d">>

FoodUpper == <<"F", "O", "O", "D">>

FoodPadded == <<" ", "f", "o", "o", "d", " ">>

Travel == <<"T", "r", "a", "v", "e", "l">>

Rice == <<"r", "i", "c", "e">>

Bus == <<"b", "u", "s">>

Dec16 == MkDate(2025, 12, 16)

Feb29 == MkDate(2024, 2, 29)

ExpFood == Expense(Dec16, Food, Rice, 5)

ExpTravel == Expense(Feb29, Travel, Bus, 3)

\* passes every validator, but its category carries surrounding blanks
ExpPadded == Expense(Dec16, FoodPadded, Rice, 5)

\* built directly with an amount validate_amount rejects
ExpNegative == Expense(Dec16, Food, Rice, 0 - 5)

\* the Expenses callers construct and pass to add_expense
PersistPool == {ExpFood, ExpPadded, ExpNegative}

QueryPool == {ExpFood, ExpTravel, ExpPadded}

IsoDec16 == isoformat(Dec16)

\* elements found in files the store did not write
RawPool ==
    { JScalar,
      JObject(JStr(<<"2", "0", "2", "5", "-", "1", "3", "-", "0", "1">>),
              JStr(Food), JStr(Rice), JNum(5)),
      JObject(JStr(IsoDec16), JStr(Food), JStr(Rice), JMissing),
      JObject(JStr(IsoDec16), JStr(Rep("a", MaxCategoryLen + 1)), JStr(Rice), JNum(5)),
      JObject(JStr(IsoDec16), JStr(Food), JMissing, JNum(5)),
      JObject(JStr(<<" ">> \o IsoDec16), JStr(FoodPadded), JStr(Rice),
              JStr(<<"", "+", "7", ".", "0">>)),
      JObject(JStr(IsoDec16 \o <<"\r", "\n">>), JNum(5), JStr(Rice), JNum(5)) }

InitFiles ==
    {Absent, Garbage, NotAList, JList(<<>>),
     JList(<<to_dict(ExpFood)>>), JList(<<to_dict(ExpFood), to_dict(ExpTravel)>>)}
    \cup {JList(<<r>>) : r \in RawPool}
    \cup {JList(<<to_dict(ExpFood), r>>) : r \in RawPool}

Filters ==
    {NoCategory, Category(Food), Category(FoodUpper), Category(<<"", "F", "o", "o", "d", "", "\n">>),
     Category(<<" ", "T", "R", "A", "V", "E", "L">>), Category(Rice)}

Call(op, ok) ==
    [op |-> op, ok |-> ok, e |-> NoExpense, cat |-> NoCategory, ret |-> 0,
     exps |-> <<>>, n |-> 0]

NoInput == [kind |-> "none", s |-> <<>>, e |-> NoExpense]

NoOutput == [kind |-> "none", ok |-> TRUE, d |-> None, e |-> NoExpense]

\* after ExpenseStore(db_path): an empty list, whatever the file holds
Init ==
    /\ expenses = <<>>
    /\ file \in InitFiles
    /\ snap = NoSnapshot
    /\ last = Call("init", TRUE)
    /\ lastWrite = "none"
    /\ onlyAdds = "none"
    /\ unsaved = FALSE
    /\ gap = FALSE
    /\ inp = NoInput
    /\ out = NoOutput

(***************************************************************************)
(* Actions of the store                                                    *)
(***************************************************************************)
\* self.expenses is bound to a new list: a caller holding the old object keeps it
Rebound(old) == IF snap.own THEN snap ELSE [held |-> TRUE, own |-> TRUE, val |-> old]

Load ==
    LET r == load(file, expenses)
    IN  /\ expenses' = r.expenses
        /\ snap' = IF r.ok THEN Rebound(expenses) ELSE snap
        /\ last' = [Call("load", r.ok) EXCEPT !.n = Len(expenses)]
        /\ onlyAdds' = "other"
        /\ gap' = (gap /\ ~r.ok)
        /\ UNCHANGED <<file, lastWrite, unsaved, inp, out>>

Save(io) ==
    LET r == save(file, expenses, io)
    IN  /\ file' = r.file
        /\ last' = [Call("save", r.ok) EXCEPT !.n = Len(expenses)]
        /\ lastWrite' = IF r.ok THEN "ok" ELSE "failed"
        /\ onlyAdds' = "other"
        /\ unsaved' = (unsaved /\ ~r.ok)
        /\ gap' = (gap /\ ~r.ok)
        /\ UNCHANGED <<expenses, snap, inp, out>>

AddExpense(e, io) ==
    /\ Len(expenses) < MaxLen
    /\ LET r == add_expense(file, expenses, e, io)
       IN  /\ expenses' = r.expenses
           /\ file' = r.file
           /\ last' = [Call("add", r.ok) EXCEPT !.e = e, !.n = Len(expenses)]
           /\ lastWrite' = IF r.ok THEN "ok" ELSE "failed"
           /\ onlyAdds' = IF r.ok /\ onlyAdds # "other" THEN "clean" ELSE "other"
           /\ unsaved' = ~r.ok
           /\ gap' = (~r.ok /\ (gap \/ file = Serialize(expenses)))
           /\ UNCHANGED <<snap, inp, out>>

ClearAll(io) ==
    LET r == clear_all(file, io)
    IN  /\ expenses' = r.expenses
        /\ file' = r.file
        /\ snap' = Rebound(expenses)
        /\ last' = [Call("clear", r.ok) EXCEPT !.n = Len(expenses)]
        /\ lastWrite' = IF r.ok THEN "ok" ELSE "failed"
        /\ onlyAdds' = "other"
        /\ unsaved' = (unsaved /\ ~r.ok)
        /\ gap' = FALSE
        /\ UNCHANGED <<inp, out>>

\* a second ExpenseStore constructed at the same path, then its load()
Reopen ==
    LET r == load(file, <<>>)
    IN  /\ last' = [Call("reopen", r.ok) EXCEPT !.exps = r.expenses, !.n = Len(expenses)]
        /\ UNCHANGED <<expenses, file, snap, lastWrite, onlyAdds, unsaved, gap, inp, out>>

ListExpenses ==
    /\ snap' = list_expenses(expenses)
    /\ last' = [Call("list", TRUE) EXCEPT !.n = Len(expenses)]
    /\ UNCHANGED <<expenses, file, lastWrite, onlyAdds, unsaved, gap, inp, out>>

TotalSpending(category) ==
    /\ last' = [Call("total", TRUE) EXCEPT !.cat = category,
                                           !.ret = total_spending(expenses, category),
                                           !.n = Len(expenses)]
    /\ UNCHANGED <<expenses, file, snap, lastWrite, onlyAdds, unsaved, gap, inp, out>>

Reversed(l) == [i \in 1..Len(l) |-> l[Len(l) + 1 - i]]

\* what the caller does to the list it holds
Mutated(l, how, e) ==
    CASE how = "append" -> Append(l, e)
      [] how = "pop" -> SubSeq(l, 1, Len(l) - 1)
      [] how = "reverse" -> Reversed(l)

\* the caller appends to, removes from or reorders the list list_expenses returned
MutateSnapshot(how, e) ==
    /\ snap.held
    /\ LET l == IF snap.own THEN snap.val ELSE expenses
       IN  /\ how = "append" => Len(l) < MaxLen
           /\ how = "pop" => Len(l) > 0
           /\ how = "reverse" => Len(l) > 1 /\ e = ExpFood
           /\ how = "pop" => e = ExpFood
           /\ IF snap.own
              THEN snap' = [snap EXCEPT !.val = Mutated(l, how, e)]
                   /\ expenses' = expenses
              ELSE snap' = snap /\ expenses' = Mutated(l, how, e)
    /\ last' = [Call("mutate", TRUE) EXCEPT !.n = Len(expenses)]
    /\ UNCHANGED <<file, lastWrite, onlyAdds, unsaved, gap, inp, out>>

\* load, save, add_expense, clear_all, and a second store opening the file
Next ==
    \/ Load
    \/ \E io \in IoOutcomes : Save(io)
    \/ \E e \in PersistPool : \E io \in IoOutcomes : AddExpense(e, io)
    \/ \E io \in IoOutcomes : ClearAll(io)
    \/ Reopen

Spec == Init /\ [][Next]_vars

\* add_expense, clear_all and load on a disk that takes every write, and the
\* read-only calls with a caller's snapshot
NextQuery ==
    \/ \E e \in QueryPool : AddExpense(e, "written")
    \/ ClearAll("written")
    \/ Load
    \/ ListExpenses
    \/ \E c \in Filters : TotalSpending(c)
    \/ \E how \in {"append", "pop", "reverse"} : \E e \in QueryPool : MutateSnapshot(how, e)

\* the files the query runs start from
QueryFiles == {Absent, NotAList, JList(<<to_dict(ExpFood), to_dict(ExpTravel)>>)}

InitQuery == Init /\ file \in QueryFiles

SpecQuery == InitQuery /\ [][NextQuery]_vars

(***************************************************************************)
(* The pure functions on their own: parse_date on a text, and              *)
(* from_dict(to_dict(e)) on an Expense                                     *)
(***************************************************************************)
YearTexts ==
    { <<"2", "0", "2", "5">>, <<"2", "0", "2", "4">>, <<"0", "0", "0", "0">>,
      <<"0", "0", "0", "5">>, <<"2", "5">> }

MonthTexts ==
    { <<"1">>, <<"0", "1">>, <<"1", "2">>, <<"1", "3">>, <<"0", "0">>,
      <<"0", "2">>, <<"2">> }

DayTexts ==
    { <<"5">>, <<"0", "5">>, <<"2", "9">>, <<"3", "0">>, <<"3", "1">>,
      <<"3", "2">>, <<" ", "5">>, <<"0", "0">> }

Separators == {"-", "/"}

Paddings == {<<>>, <<" ">>, <<"\r", "\n">>, <<"">>}

DateTexts ==
    { p \o y \o <<sep>> \o m \o <<sep>> \o d \o p :
        p \in Paddings, y \in YearTexts, sep \in Separators,
        m \in MonthTexts, d \in DayTexts }
    \cup { <<>>, <<" ">>,
           <<"1", "6", "-", "1", "2", "-", "2", "0", "2", "5">>,
           <<"2", "0", "2", "5", "-", "1", "2", "-", "1", "6", "1">> }

\* Expenses that pass all three validators and hold a calendar date
RoundTripExpenses ==
    { Expense(d, c, desc, a) :
        d \in {Dec16, Feb29, MkDate(5, 1, 5)},
        c \in {Food, FoodUpper, FoodPadded, Food \o <<"\r">>, <<"">> \o Food, Rep("a", MaxCategoryLen)},
        desc \in {Rice, Rice \o <<" ">>, Rep("b", MaxDescriptionLen)},
        a \in {1, 5} }

PureInputs ==
    { [kind |-> "text", s |-> t, e |-> NoExpense] : t \in DateTexts }
    \cup { [kind |-> "expense", s |-> <<>>, e |-> x] : x \in RoundTripExpenses }

InitPure ==
    /\ expenses = <<>>
    /\ file = Absent
    /\ snap = NoSnapshot
    /\ last = Call("init", TRUE)
    /\ lastWrite = "none"
    /\ onlyAdds = "none"
    /\ unsaved = FALSE
    /\ gap = FALSE
    /\ inp \in PureInputs
    /\ out = NoOutput

ParseDate ==
    /\ inp.kind = "text"
    /\ LET d == parse_date(inp.s)
       IN  out' = [kind |-> "date", ok |-> d # None, d |-> d, e |-> NoExpense]
    /\ UNCHANGED <<storeVars, inp>>

RoundTrip ==
    /\ inp.kind = "expense"
    /\ LET r == from_dict(to_dict(inp.e))
       IN  out' = [kind |-> "roundtrip", ok |-> r.ok, d |-> None, e |-> r.val]
    /\ UNCHANGED <<storeVars, inp>>

NextPure ==
    \/ ParseDate
    \/ RoundTrip

SpecPure == InitPure /\ [][NextPure]_vars

(***************************************************************************)
(* Properties                                                              *)
(***************************************************************************)
\* the four field rules of an Expense
FieldRules(e) ==
    /\ ValidDate(e.date.year, e.date.month, e.date.day)
    /\ Strip(e.category) # <<>> /\ Len(Strip(e.category)) <= MaxCategoryLen
    /\ Strip(e.description) # <<>> /\ Len(Strip(e.description)) <= MaxDescriptionLen
    /\ e.amount > 0

\* two characters that are the same letter in either case
SameLetter(x, y) ==
    x = y \/ \E k \in 1..26 : {x, y} = {UpperChars[k], LowerChars[k]}

EqIgnoreCase(a, b) ==
    Len(a) = Len(b) /\ \A i \in 1..Len(a) : SameLetter(a[i], b[i])

RECURSIVE SumOver(_, _)
\* the sum of amount over the positions in idx
SumOver(exps, idx) ==
    IF idx = {} THEN 0
    ELSE LET i == CHOOSE j \in idx : TRUE
         IN  exps[i].amount + SumOver(exps, idx \ {i})

\* the total the spec asks for: every entry without a filter, otherwise the
\* entries whose category, ignoring case, is the trimmed filter
ExpectedTotal(exps, category) ==
    IF ~category.given THEN SumOver(exps, DOMAIN exps)
    ELSE SumOver(exps, {i \in DOMAIN exps :
                          EqIgnoreCase(exps[i].category, Strip(category.s))})

\* an existing file that load() must refuse
Unloadable(f) ==
    /\ f.kind # "absent"
    /\ f.kind # "list" \/ \E i \in 1..Len(f.items) : ~from_dict(f.items[i]).ok

\* C1: whenever the most recent save, add_expense or clear_all returned
\* without error, the file holds exactly the serialization of the current
\* in-memory sequence.
C1_FileMatchesMemoryAfterWrite ==
    lastWrite = "ok" => file = Serialize(expenses)

\* C2: after a store has only added Expenses, every add returning, a fresh
\* store at the same path loads without error and ends with the same number
\* of entries, in the same order, and the same total.
C2_ReopenSeesSameEntries ==
    (last.op = "reopen" /\ onlyAdds = "clean") =>
        /\ last.ok
        /\ Len(last.exps) = Len(expenses)
        /\ \A i \in 1..Len(expenses) :
              /\ last.exps[i].date = expenses[i].date
              /\ last.exps[i].amount = expenses[i].amount
              /\ last.exps[i].category = Strip(expenses[i].category)
              /\ last.exps[i].description = Strip(expenses[i].description)
        /\ SumAmounts(last.exps) = SumAmounts(expenses)

\* C3: every Expense the store holds satisfies the four field rules (a
\* calendar date, a category and a description that are non-empty and
\* within 30 / 120 characters after trimming, an amount above 0).
C3_StoredExpensesValid ==
    \A i \in 1..Len(expenses) : FieldRules(expenses[i])

\* C4: load() on an existing file that is not a list, or has an element
\* from_dict rejects, raises RuntimeError and leaves the in-memory sequence
\* exactly as it was; it never returns normally for such a file.
C4_LoadAllOrNothing ==
    [][(last'.op = "load" /\ Unloadable(file)) =>
           /\ ~last'.ok
           /\ load(file, expenses).err = "RuntimeError"
           /\ expenses' = expenses
           /\ file' = file]_vars

\* a load has just failed on a list with one good and one bad row while the
\* store held an entry, which it still holds
C4_Witness ==
    /\ last.op = "load" /\ ~last.ok
    /\ file.kind = "list" /\ Len(file.items) = 2
    /\ from_dict(file.items[1]).ok /\ ~from_dict(file.items[2]).ok
    /\ Len(expenses) > 0

\* C5 as stated: once the save inside add_expense has failed, memory and
\* file stay different until a later save succeeds.
C5_DifferentUntilSaved ==
    unsaved => file # Serialize(expenses)

\* C5, amended: when the save inside add_expense(e) fails the call fails, the
\* in-memory sequence already ends with e and the file keeps its old content
\* or is left cut short; and if the file matched memory before the call, the
\* two stay different until a save succeeds, a load() succeeds or clear_all()
\* replaces the in-memory sequence.
C5_NoRollback ==
    /\ [][(last'.op = "add" /\ ~last'.ok) =>
              /\ expenses' = Append(expenses, last'.e)
              /\ file' \in {file, Garbage}]_vars
    /\ [](gap => file # Serialize(expenses))

\* an add_expense has just failed on a store whose file matched its one entry
C5_Witness ==
    /\ last.op = "add" /\ ~last.ok /\ gap
    /\ Len(expenses) = 2
    /\ expenses[2] = last.e
    /\ file = Serialize(<<expenses[1]>>)

\* C6: from_dict(e.to_dict()) succeeds and returns an Expense equal to e.
C6_RoundTrip ==
    out.kind = "roundtrip" => out.ok /\ out.e = inp.e

\* the text is a zero-padded YYYY-MM-DD rendering of a calendar date
IsPaddedDate(v) ==
    /\ Len(v) = 10
    /\ \A i \in {1, 2, 3, 4, 6, 7, 9, 10} : IsDigit(v[i])
    /\ v[5] = "-" /\ v[8] = "-"
    /\ ValidDate(IntOf(SubSeq(v, 1, 4)), IntOf(SubSeq(v, 6, 7)), IntOf(SubSeq(v, 9, 10)))

\* C9: parse_date returns the date for a text that, once trimmed, is a
\* zero-padded YYYY-MM-DD calendar date, and None for every other text.
C9_ParseDateOnlyPadded ==
    out.kind = "date" =>
        LET v == Strip(inp.s)
        IN  IF IsPaddedDate(v)
            THEN out.d = MkDate(IntOf(SubSeq(v, 1, 4)), IntOf(SubSeq(v, 6, 7)),
                                IntOf(SubSeq(v, 9, 10)))
            ELSE out.d = None

\* C7: total_spending(category=c) is the sum over the entries whose category
\* equals the trimmed c ignoring case (0 when none match), so "FOOD" and
\* "food" give the same total; without a filter it is the sum over all
\* entries, 0 for an empty store.
C7_TotalSpending ==
    /\ last.op = "total" => last.ret = ExpectedTotal(expenses, last.cat)
    /\ total_spending(expenses, Category(FoodUpper))
         = total_spending(expenses, Category(Food))
    /\ expenses = <<>> =>
         \A c \in Filters : total_spending(expenses, c) = 0

\* total_spending("FOOD") has just returned the one food entry's amount out
\* of a store that also holds another category
C7_Witness ==
    /\ last.op = "total" /\ last.cat = Category(FoodUpper)
    /\ last.ret = ExpFood.amount
    /\ Len(expenses) = 2
    /\ SumAmounts(expenses) > last.ret

\* C8: list_expenses returns a list of its own holding the current sequence
\* in order, and neither the call nor any change the caller makes to the
\* returned list changes the in-memory sequence or the file.
C8_SnapshotIndependent ==
    [][/\ last'.op = "list" =>
            /\ snap'.own /\ snap'.val = expenses
            /\ expenses' = expenses /\ file' = file
       /\ last'.op = "mutate" =>
            /\ expenses' = expenses /\ file' = file
            /\ \A c \in Filters :
                 total_spending(expenses', c) = total_spending(expenses, c)]_vars

\* the caller has just changed the list it holds, which now differs from
\* what the store holds
C8_Witness ==
    /\ last.op = "mutate"
    /\ snap.held /\ snap.val # expenses
    /\ Len(expenses) > 0

\* C10: a load() that returns leaves exactly the Expenses built from the
\* file's elements in file order, whatever the store held before; for a
\* missing file that is the empty sequence, and no file is created.
C10_LoadReplaces ==
    [][(last'.op = "load" /\ last'.ok) =>
           /\ file' = file
           /\ file.kind \in {"absent", "list"}
           /\ Len(expenses') = Len(file.items)
           /\ \A i \in 1..Len(file.items) :
                 /\ from_dict(file.items[i]).ok
                 /\ expenses'[i] = from_dict(file.items[i]).val]_vars

\* a load has just returned with the file's single entry on a store that
\* held two entries before
C10_Witness ==
    /\ last.op = "load" /\ last.ok
    /\ last.n = 2
    /\ file.kind = "list" /\ Len(file.items) = 1
    /\ expenses = <<from_dict(file.items[1]).val>>

====
